---- MODULE Spec2Model ----
(***************************************************************************)
(* STAR best-fit tabulation of starbestfit.com (frontend/src/utils/star.ts *)
(* and calculateAvailability.ts), modelled as the state machine of the     *)
(* availability viewer: an event with a list of time labels, a growing     *)
(* list of responses, a selectable meeting duration, and the memoised      *)
(* result of calculateBestTime, recomputed whenever one of its inputs      *)
(* changes.                                                                *)
(*                                                                         *)
(* Encoding.  A time label is the serial number k of a 15-minute grid      *)
(* slot; the time map turns it into minutes.  An optional value is a       *)
(* sequence of length at most one (<<>> is undefined).  A quotient a/b is  *)
(* the record [num |-> a, den |-> b].  A randomTieValue x stands for the   *)
(* number x / RngModulus in (0,1).                                         *)
(***************************************************************************)
EXTENDS Integers, Sequences, FiniteSets, TLC

VARIABLES
  times,          \* the event's time labels, in the order of the event
  eventId,        \* the event's id, the seed of the coin toss
  duration,       \* the meeting duration in minutes
  people,         \* the responses, PersonResponse[]
  results,        \* what the last calculateBestTime returned or threw
  myrng,          \* state of the generator of the last call (<<>>: none yet)
  candidates,     \* the candidate array of the last call as it went into the filter, after the filter ran
  highestScored,  \* the filter's top scorer of the last call (<<>>: no filter round)
  remaining,      \* the candidates the filter returned
  scoreRound,     \* the scoring round of the last call (<<>>: none)
  runoffRound,    \* the runoff round of the last call (<<>>: none)
  filterRound,    \* the full round of the filter of the last call (<<>>: none)
  pool,           \* the array handed to calculateStarBest, as the call left it
  inputs,         \* times, people and timeMap handed to the last call, as the call left them
  response,       \* the last response of the API as it came over the wire (<<>>: none yet)
  parsed          \* that response deserialized (<<>>: none yet)

vars == <<times, eventId, duration, people, results, myrng,
          candidates, highestScored, remaining, scoreRound, runoffRound,
          filterRound, pool, inputs, response, parsed>>

(***************************************************************************)
(* Program constants and the bounds of the model                           *)
(***************************************************************************)
MAXSCORE == 5
TIMESLOT_MINUTES == 15

NumSlots == 3        \* the event has at most this many time labels
MaxPeople == 2       \* at most this many responses
WideSlots == 6       \* labels of the events of SpecWide
GapSlots == 3        \* labels of the events of SpecGaps
GapPeople == 1       \* at most this many responses in SpecGaps
WireLen == 4         \* characters of a string of the API, at most
StarPeople == 2      \* at most this many responses in SpecStars
CrowdPeople == 3     \* at most this many responses in SpecCrowd
ScoreLevels == {0, MAXSCORE}                 \* scores a person gives a slot
Durations == {TIMESLOT_MINUTES, 2 * TIMESLOT_MINUTES, 4 * TIMESLOT_MINUTES}
EventIds == {"abc", "xyz"}

None == << >>
Some(x) == << x >>
Defined(o) == o # << >>

RECURSIVE Sum(_)
Sum(s) == IF s = << >> THEN 0 ELSE Head(s) + Sum(Tail(s))

Min(a, b) == IF a < b THEN a ELSE b

\* the array with the elements f[1], ..., f[n], each computed once
Array(f) == f \o << >>

\* Array.prototype.sort with a comparator on integer keys: the stable
\* ascending order of s by keys (keys[i] is the key of s[i]).
StableSort(s, keys) ==
  LET n == Len(s)
      pos(i) == Cardinality({j \in 1..n :
                   keys[j] < keys[i] \/ (keys[j] = keys[i] /\ j < i)}) + 1
  IN  Array([k \in 1..n |-> s[CHOOSE i \in 1..n : pos(i) = k]])

\* Array.prototype.find: the first element that satisfies Test, if any
Find(s, Test(_)) ==
  LET hits == SelectSeq(s, Test) IN IF hits = << >> THEN None ELSE Some(Head(hits))

(***************************************************************************)
(* star.ts: helpers                                                        *)
(***************************************************************************)
getScoreForTime(time, availability) ==
  LET timescore == Find(availability, LAMBDA item : item.time = time)
  IN  IF Defined(timescore) THEN timescore[1].score ELSE 0

dropZeroScores(availability) ==
  SelectSeq(availability, LAMBDA item : item.score > 0)

\* calculateTimeMap: label -> point in time (minutes)
calculateTimeMap(ts) ==
  [t \in {ts[i] : i \in 1..Len(ts)} |-> t * TIMESLOT_MINUTES]

\* timeInsideRange that counts a time equal to a bound as inside
timeInsideRangeClosed(other, range) ==
  (range[1] <= other) /\ (other <= range[2])

timeInsideRange(other, range) ==
  (range[1] < other) /\ (other < range[2])

(***************************************************************************)
(* Duration Aggregator                                                     *)
(***************************************************************************)
\* a person's score for every label, unscored labels included
denseAvailability(ts, p, timeMap) ==
  Array([i \in 1..Len(ts) |->
    [time |-> ts[i], timeObj |-> timeMap[ts[i]],
     score |-> getScoreForTime(ts[i], p.availability)]])

\* sort asc by point in time
sortByTime(dense) ==
  StableSort(dense, Array([i \in 1..Len(dense) |-> dense[i].timeObj]))

\* windowScore that sums the whole slice, without the test of the range
windowScoreUnfiltered(fullAvailability, idx, dur) ==
  LET last == Min(idx + (dur \div TIMESLOT_MINUTES) - 1, Len(fullAvailability))
      slice == SubSeq(fullAvailability, idx, last)
  IN  fullAvailability[idx].score + Sum([k \in 1..Len(slice) |-> slice[k].score])

\* windowScore that looks one position less far ahead
windowScoreShortSlice(fullAvailability, idx, dur) ==
  LET a == fullAvailability[idx]
      range == <<a.timeObj, a.timeObj + dur>>
      last == Min(idx + (dur \div TIMESLOT_MINUTES) - 2, Len(fullAvailability))
      inside == SelectSeq(SubSeq(fullAvailability, idx, last),
                          LAMBDA a2 : timeInsideRange(a2.timeObj, range))
  IN  a.score + Sum([k \in 1..Len(inside) |-> inside[k].score])

\* the score of the meeting that starts at fullAvailability[idx]
windowScore(fullAvailability, idx, dur) ==
  LET a == fullAvailability[idx]
      range == <<a.timeObj, a.timeObj + dur>>
      last == Min(idx + (dur \div TIMESLOT_MINUTES) - 1, Len(fullAvailability))
      inside == SelectSeq(SubSeq(fullAvailability, idx, last),
                          LAMBDA a2 : timeInsideRange(a2.timeObj, range))
  IN  a.score + Sum([k \in 1..Len(inside) |-> inside[k].score])

fullScores(fullAvailability, dur) ==
  Array([idx \in 1..Len(fullAvailability) |->
    [time |-> fullAvailability[idx].time,
     score |-> windowScore(fullAvailability, idx, dur)]])

replaceScoresWithFullScores(ts, ps, dur, timeMap) ==
  Array([k \in 1..Len(ps) |->
    [name |-> ps[k].name,
     availability |->
       dropZeroScores(fullScores(sortByTime(denseAvailability(ts, ps[k], timeMap)), dur)),
     created_at |-> ps[k].created_at]])

(***************************************************************************)
(* Availability Collator (calculateAvailability.ts), its availabilities    *)
(***************************************************************************)
\* the people with a score > 0 at the date, with their scores
nameScores(date, ps) ==
  LET scored == SelectSeq(ps, LAMBDA p : getScoreForTime(date, p.availability) > 0)
  IN  Array([k \in 1..Len(scored) |->
        [name |-> scored[k].name,
         score |-> getScoreForTime(date, scored[k].availability)]])

calculateAvailability(dates, ps) ==
  IF Len(ps) = 0 THEN << >>
  ELSE Array([d \in 1..Len(dates) |->
         [date |-> dates[d], people |-> nameScores(dates[d], ps)]])

(***************************************************************************)
(* The seeded generator (seedrandom): a Lehmer generator.  Its state is a  *)
(* number in 1..RngModulus-1, a draw multiplies the state by RngMultiplier *)
(* modulo RngModulus and returns the new state (as state / RngModulus).    *)
(* RngMultiplier is a primitive root, so RngModulus - 1 successive draws   *)
(* are pairwise distinct.                                                  *)
(***************************************************************************)
RngModulus == 13
RngMultiplier == 2
SeedOf == ("abc" :> 1) @@ ("xyz" :> 5)

\* a generator shared by all calls: seeded by the first call only
seedrandomShared(id) == IF Defined(myrng) THEN myrng[1] ELSE SeedOf[id]

seedrandom(id) == SeedOf[id]

rngDraw(state) == (RngMultiplier * state) % RngModulus

RECURSIVE rngDraws(_, _)
\* the values of n successive draws from a generator in the given state
rngDraws(state, n) ==
  IF n = 0 THEN << >> ELSE <<rngDraw(state)>> \o rngDraws(rngDraw(state), n - 1)

(***************************************************************************)
(* Candidate Metrics Calculator                                            *)
(***************************************************************************)
\* isFiveStars that counts an average of MAXSCORE - 0.5 too
isFiveStarsAtLeast(score, numTimeslots) ==
  2 * score >= (2 * MAXSCORE - 1) * numTimeslots

\* (p.score / numTimeslots) > (MAXSCORE - 0.5), in integers
isFiveStars(score, numTimeslots) ==
  2 * score > (2 * MAXSCORE - 1) * numTimeslots

calculateSimpleCandidateMetrics(avs, dur, id) ==
  LET numTimeslots == dur \div TIMESLOT_MINUTES
      randomTieValues == rngDraws(seedrandom(id), Len(avs))
  IN  Array([i \in 1..Len(avs) |->
        [date |-> avs[i].date,
         people |-> avs[i].people,
         score |-> Sum([k \in 1..Len(avs[i].people) |-> avs[i].people[k].score]),
         rankedWins |-> None,
         fiveStars |-> Len(SelectSeq(avs[i].people,
                           LAMBDA p : isFiveStars(p.score, numTimeslots))),
         randomTieValue |-> randomTieValues[i]]])

\* the state of the generator once calculateSimpleCandidateMetrics is through
rngAfterMetrics(avs, id) ==
  LET d == rngDraws(seedrandom(id), Len(avs))
  IN  IF d = << >> THEN seedrandom(id) ELSE d[Len(d)]

(***************************************************************************)
(* Ranked robin                                                            *)
(***************************************************************************)
\* calculateRankedWinsBetweenPair that counts a draw as a win
calculateRankedWinsBetweenPairCountsDraws(a, b) ==
  Len(SelectSeq(a, LAMBDA aNameScore :
        LET bNameScore == Find(b, LAMBDA p : p.name = aNameScore.name)
        IN  ~Defined(bNameScore) \/ aNameScore.score >= bNameScore[1].score))

\* number of rank wins of a over b (lists of NameScore)
calculateRankedWinsBetweenPair(a, b) ==
  Len(SelectSeq(a, LAMBDA aNameScore :
        LET bNameScore == Find(b, LAMBDA p : p.name = aNameScore.name)
        IN  ~Defined(bNameScore) \/ aNameScore.score > bNameScore[1].score))

\* calculateRankedWins that adds to the ranked wins a candidate has
calculateRankedWinsAccumulating(cs) ==
  Array([i \in 1..Len(cs) |->
    [cs[i] EXCEPT !.rankedWins =
      Some((IF Defined(cs[i].rankedWins) THEN cs[i].rankedWins[1] ELSE 0)
           + Sum([j \in 1..Len(cs) |->
               IF j = i THEN 0
               ELSE calculateRankedWinsBetweenPair(cs[i].people, cs[j].people)]))]])

\* calculateRankedWins that matches a candidate against the candidates
\* after it in the list only
calculateRankedWinsForward(cs) ==
  Array([i \in 1..Len(cs) |->
    [cs[i] EXCEPT !.rankedWins =
      Some(Sum([j \in 1..Len(cs) |->
             IF j <= i THEN 0
             ELSE calculateRankedWinsBetweenPair(cs[i].people, cs[j].people)]))]])

\* the candidates with rankedWins set, among exactly these candidates
calculateRankedWins(cs) ==
  Array([i \in 1..Len(cs) |->
    [cs[i] EXCEPT !.rankedWins =
      Some(Sum([j \in 1..Len(cs) |->
             IF j = i THEN 0
             ELSE calculateRankedWinsBetweenPair(cs[i].people, cs[j].people)]))]])

\* the rankedWins array of calculateRankedWins after its two loops, run
\* from the pair (i, j) on
RECURSIVE rankedWinsFromPair(_, _, _, _)
rankedWinsFromPair(cs, i, j, rankedWins) ==
  IF i > Len(cs) THEN rankedWins
  ELSE IF j > Len(cs) THEN rankedWinsFromPair(cs, i + 1, i + 2, rankedWins)
  ELSE rankedWinsFromPair(cs, i, j + 1,
         [rankedWins EXCEPT
            ![i] = @ + calculateRankedWinsBetweenPair(cs[i].people, cs[j].people),
            ![j] = @ + calculateRankedWinsBetweenPair(cs[j].people, cs[i].people)])

\* the candidates with the entries of the array as their rankedWins
withRankedWins(cs, rankedWins) ==
  Array([i \in 1..Len(cs) |-> [cs[i] EXCEPT !.rankedWins = Some(rankedWins[i])]])

\* calculateRankedWins loop by loop
calculateRankedWinsByLoops(cs) ==
  withRankedWins(cs, rankedWinsFromPair(cs, 1, 2, [k \in 1..Len(cs) |-> 0]))

(***************************************************************************)
(* Round Tabulator                                                         *)
(***************************************************************************)
\* what the throw statements and the runtime throw
NoError == ""
MiniRoundError ==
  "calculateMiniRound should be called with more candidates than the desired number of winners"
RankedWinsError == "ranked wins were not calculated before ranked robin round"
TypeError == "TypeError: cannot read properties of undefined"

\* getMetric throws exactly here
getMetricThrows(candidate, metric) ==
  metric = "rankedRobin" /\ ~Defined(candidate.rankedWins)

\* getMetric that reads no randomTieValue: every coin toss is a draw
getMetricCoinIgnored(candidate, metric) ==
  CASE metric = "score" -> candidate.score
    [] metric = "rankedRobin" -> candidate.rankedWins[1]
    [] metric = "fiveStars" -> candidate.fiveStars
    [] OTHER -> 0

getMetric(candidate, metric) ==
  CASE metric = "score" -> candidate.score
    [] metric = "rankedRobin" -> candidate.rankedWins[1]
    [] metric = "fiveStars" -> candidate.fiveStars
    [] OTHER -> candidate.randomTieValue

\* a mini round that computes no ranked wins
rankForRoundSkipped(cs, roundType) == cs

\* a mini round that keeps the ranked wins of an earlier round, if all its
\* candidates have some
rankForRoundKeepsStale(cs, roundType) ==
  IF roundType = "rankedRobin"
     /\ \E i \in 1..Len(cs) : ~Defined(cs[i].rankedWins)
  THEN calculateRankedWins(cs)
  ELSE cs

\* the candidates as the mini round ranks them before it sorts
rankForRound(cs, roundType) ==
  IF roundType = "rankedRobin" THEN calculateRankedWins(cs) ELSE cs

\* sort descending by the metric
sortByMetric(cs, roundType) ==
  StableSort(cs, Array([i \in 1..Len(cs) |-> 0 - getMetric(cs[i], roundType)]))

\* miniRoundOfSorted that takes the metric of the last winning place, one
\* place too high, as the score to beat
miniRoundOfSortedLastPlace(numWinners, sorted, roundType) ==
  LET scoreToBeat == getMetric(sorted[numWinners], roundType)
      winners == SelectSeq(sorted, LAMBDA w : getMetric(w, roundType) > scoreToBeat)
      tied == IF Len(winners) = numWinners THEN << >>
              ELSE SelectSeq(sorted, LAMBDA w : getMetric(w, roundType) = scoreToBeat)
  IN  [thrown |-> FALSE, error |-> NoError, arg |-> sorted, roundType |-> roundType,
       candidates |-> sorted, winners |-> winners, tied |-> tied]

\* miniRoundOfSorted that returns the tied candidates of a resolved round too
miniRoundOfSortedKeepsTied(numWinners, sorted, roundType) ==
  LET scoreToBeat == getMetric(sorted[numWinners + 1], roundType)
  IN  [thrown |-> FALSE, error |-> NoError, arg |-> sorted, roundType |-> roundType,
       candidates |-> sorted,
       winners |-> SelectSeq(sorted, LAMBDA w : getMetric(w, roundType) > scoreToBeat),
       tied |-> SelectSeq(sorted, LAMBDA w : getMetric(w, roundType) = scoreToBeat)]

\* the mini round from its sorted candidates on
miniRoundOfSorted(numWinners, sorted, roundType) ==
  LET scoreToBeat == getMetric(sorted[numWinners + 1], roundType)
      winners == SelectSeq(sorted, LAMBDA w : getMetric(w, roundType) > scoreToBeat)
      tied == IF Len(winners) = numWinners THEN << >>
              ELSE SelectSeq(sorted, LAMBDA w : getMetric(w, roundType) = scoreToBeat)
  IN  [thrown |-> FALSE, error |-> NoError, arg |-> sorted, roundType |-> roundType,
       candidates |-> sorted, winners |-> winners, tied |-> tied]

\* the mini round from its ranked candidates on: the comparator of the sort
\* reads the metric of every candidate and throws when getMetric does
miniRoundOfRanked(numWinners, ranked, roundType) ==
  IF \E i \in 1..Len(ranked) : getMetricThrows(ranked[i], roundType)
  THEN [thrown |-> TRUE, error |-> RankedWinsError, arg |-> ranked,
        roundType |-> roundType,
        candidates |-> << >>, winners |-> << >>, tied |-> << >>]
  ELSE miniRoundOfSorted(numWinners, sortByMetric(ranked, roundType), roundType)

\* calculateMiniRound that ranks and sorts before it tests numWinners
calculateMiniRoundLateCheck(numWinners, cs, roundType) ==
  IF numWinners >= Len(cs)
  THEN [thrown |-> TRUE, error |-> MiniRoundError,
        arg |-> sortByMetric(rankForRound(cs, roundType), roundType),
        roundType |-> roundType,
        candidates |-> << >>, winners |-> << >>, tied |-> << >>]
  ELSE miniRoundOfRanked(numWinners, rankForRound(cs, roundType), roundType)

\* thrown |-> TRUE: the call threw error.  arg: the caller's array after the
\* call (ranked wins are written and the array is sorted in place).
calculateMiniRound(numWinners, cs, roundType) ==
  IF numWinners >= Len(cs)
  THEN [thrown |-> TRUE, error |-> MiniRoundError, arg |-> cs, roundType |-> roundType,
        candidates |-> << >>, winners |-> << >>, tied |-> << >>]
  ELSE miniRoundOfRanked(numWinners, rankForRound(cs, roundType), roundType)

\* a mini round result as the full round keeps it
miniRoundResult(r) ==
  [roundType |-> r.roundType, candidates |-> r.candidates,
   winners |-> r.winners, tied |-> r.tied]

\* the rounds so far once mini round i has run on the tied list of the
\* mini round before, which that result still holds
roundsBefore(i, rounds, r) ==
  IF i = 1 THEN rounds ELSE [rounds EXCEPT ![i - 1].tied = r.arg]

RECURSIVE fullRoundLoop(_, _, _, _, _, _, _)
RECURSIVE fullRoundStep(_, _, _, _, _, _, _)
\* fullRoundLoop that asks every mini round for numWinners winners, whatever
\* the number of winners found so far
fullRoundLoopFullNeed(i, numWinners, cur, miniRounds, rounds, winners, arg) ==
  IF i > Len(miniRounds)
  THEN [thrown |-> FALSE, error |-> NoError,
        rounds |-> rounds, winners |-> winners, arg |-> arg]
  ELSE fullRoundStep(i, numWinners, miniRounds, rounds, winners, arg,
         calculateMiniRound(numWinners, cur, miniRounds[i]))

\* the loop of calculateFullRound from its i-th mini round on.  cur is the
\* array handed to the mini round: the caller's array when i = 1, the tied
\* list of the mini round before otherwise.  arg is the caller's array.
fullRoundLoop(i, numWinners, cur, miniRounds, rounds, winners, arg) ==
  IF i > Len(miniRounds)
  THEN [thrown |-> FALSE, error |-> NoError,
        rounds |-> rounds, winners |-> winners, arg |-> arg]
  ELSE fullRoundStep(i, numWinners, miniRounds, rounds, winners, arg,
         calculateMiniRound(numWinners - Len(winners), cur, miniRounds[i]))

\* the rest of the loop body once mini round i returned (or threw) r
fullRoundStep(i, numWinners, miniRounds, rounds, winners, arg, r) ==
  IF r.thrown
  THEN [thrown |-> TRUE, error |-> r.error,
        rounds |-> roundsBefore(i, rounds, r), winners |-> winners,
        arg |-> IF i = 1 THEN r.arg ELSE arg]
  ELSE IF Len(winners) + Len(r.winners) = numWinners
  THEN [thrown |-> FALSE, error |-> NoError,
        rounds |-> Append(roundsBefore(i, rounds, r), miniRoundResult(r)),
        winners |-> winners \o r.winners,
        arg |-> IF i = 1 THEN r.arg ELSE arg]
  ELSE fullRoundLoop(i + 1, numWinners, r.tied, miniRounds,
         Append(roundsBefore(i, rounds, r), miniRoundResult(r)),
         winners \o r.winners,
         IF i = 1 THEN r.arg ELSE arg)

\* the full round result from the outcome of its loop
fullRoundResult(cs, loop) ==
  [thrown |-> loop.thrown, error |-> loop.error, candidates |-> cs,
   rounds |-> loop.rounds, winners |-> loop.winners, arg |-> loop.arg]

\* arg: the caller's candidate array after the call
calculateFullRound(numWinners, cs, miniRounds) ==
  fullRoundResult(cs, fullRoundLoop(1, numWinners, cs, miniRounds, << >>, << >>, cs))

\* a scoring round that tosses the coin first
ScoringOrderCoinFirst == <<"random", "score", "rankedRobin", "fiveStars">>

ScoringOrder == <<"score", "rankedRobin", "fiveStars", "random">>

\* a runoff that looks at the scores first
RunoffOrderScoreFirst == <<"score", "rankedRobin", "fiveStars", "random">>

RunoffOrder == <<"rankedRobin", "score", "fiveStars", "random">>

(***************************************************************************)
(* Overlap Filter                                                          *)
(***************************************************************************)
\* keepsClearOf that tests the end of the other meeting only
keepsClearOfEndOnly(top, other, dur, timeMap) ==
  ~timeInsideRange(timeMap[other.date] + dur,
                   <<timeMap[top.date], timeMap[top.date] + dur>>)

\* keepsClearOf that tests the start of the other meeting only
keepsClearOfStartOnly(top, other, dur, timeMap) ==
  ~timeInsideRange(timeMap[other.date],
                   <<timeMap[top.date], timeMap[top.date] + dur>>)

\* other does not overlap the meeting of top
keepsClearOf(top, other, dur, timeMap) ==
  LET start == timeMap[top.date]
      end == start + dur
      otherStart == timeMap[other.date]
      otherEnd == otherStart + dur
  IN  ~(timeInsideRange(otherStart, <<start, end>>)
        \/ timeInsideRange(otherEnd, <<start, end>>))

\* the filter from the result of its full round on
filterByTopScorer(scoreResult, dur, timeMap) ==
  IF scoreResult.thrown
  THEN [thrown |-> TRUE, error |-> scoreResult.error, candidates |-> << >>,
        arg |-> scoreResult.arg, highestScored |-> None, round |-> None]
  ELSE IF scoreResult.winners = << >>
  THEN [thrown |-> TRUE, error |-> TypeError, candidates |-> << >>,
        arg |-> scoreResult.arg, highestScored |-> None, round |-> Some(scoreResult)]
  ELSE [thrown |-> FALSE, error |-> NoError,
        candidates |-> SelectSeq(scoreResult.arg,
          LAMBDA other : keepsClearOf(scoreResult.winners[1], other, dur, timeMap)),
        arg |-> scoreResult.arg,
        highestScored |-> Some(scoreResult.winners[1]),
        round |-> Some(scoreResult)]

\* thrown: the call threw error.  candidates: the list returned.  arg: the
\* caller's array after the call.  highestScored: the top scorer, and round:
\* the full round that found it, if a round was run.
removeOverlapsWithTopScorer(cs, dur, timeMap) ==
  IF Len(cs) > 2
  THEN filterByTopScorer(calculateFullRound(1, cs, ScoringOrder), dur, timeMap)
  ELSE [thrown |-> FALSE, error |-> NoError, candidates |-> cs, arg |-> cs,
        highestScored |-> None, round |-> None]

(***************************************************************************)
(* Result Selector                                                         *)
(***************************************************************************)
NoResults ==
  [thrown |-> FALSE, error |-> NoError,
   bestTime |-> None, nextBest |-> None, preferredFraction |-> None]

\* the call threw error and returned nothing
Thrown(error) ==
  [thrown |-> TRUE, error |-> error,
   bestTime |-> None, nextBest |-> None, preferredFraction |-> None]

\* the quotient without the test for a zero total: 0 / 0
preferredFractionNaN(winnerRankedWins, secondRankedWins) ==
  [num |-> winnerRankedWins, den |-> winnerRankedWins + secondRankedWins]

\* winnerRankedWins / totalRankedWins, 0 and not NaN
preferredFractionOf(winnerRankedWins, secondRankedWins) ==
  IF winnerRankedWins + secondRankedWins # 0
  THEN [num |-> winnerRankedWins, den |-> winnerRankedWins + secondRankedWins]
  ELSE [num |-> 0, den |-> 1]

\* the StarResults of a winner and a runner-up
starResults(winner, second, numTimeslots) ==
  [thrown |-> FALSE, error |-> NoError,
   bestTime |-> Some([time |-> winner.date,
                      score |-> [num |-> winner.score, den |-> numTimeslots]]),
   nextBest |-> Some([time |-> second.date,
                      score |-> [num |-> second.score, den |-> numTimeslots]]),
   preferredFraction |-> Some(preferredFractionOf(getMetric(winner, "rankedRobin"),
                                                  getMetric(second, "rankedRobin")))]

\* starBestOfFinalists that returns the two finalists in each other's place
starBestOfFinalistsSwapped(score, runoff, found, dur) ==
  IF ~Defined(found)
     \/ getMetricThrows(runoff.winners[1], "rankedRobin")
     \/ getMetricThrows(found[1], "rankedRobin")
  THEN [out |-> Thrown(TypeError), scoreRound |-> Some(score),
        runoffRound |-> Some(runoff), arg |-> score.arg]
  ELSE [out |-> starResults(found[1], runoff.winners[1], dur \div TIMESLOT_MINUTES),
        scoreRound |-> Some(score), runoffRound |-> Some(runoff), arg |-> score.arg]

\* calculateStarBest from the runner-up lookup on; found is what find returned
starBestOfFinalists(score, runoff, found, dur) ==
  IF getMetricThrows(runoff.winners[1], "rankedRobin")
  THEN [out |-> Thrown(RankedWinsError), scoreRound |-> Some(score),
        runoffRound |-> Some(runoff), arg |-> score.arg]
  ELSE IF ~Defined(found)
  THEN [out |-> Thrown(TypeError), scoreRound |-> Some(score),
        runoffRound |-> Some(runoff), arg |-> score.arg]
  ELSE IF getMetricThrows(found[1], "rankedRobin")
  THEN [out |-> Thrown(RankedWinsError), scoreRound |-> Some(score),
        runoffRound |-> Some(runoff), arg |-> score.arg]
  ELSE [out |-> starResults(runoff.winners[1], found[1], dur \div TIMESLOT_MINUTES),
        scoreRound |-> Some(score), runoffRound |-> Some(runoff), arg |-> score.arg]

\* calculateStarBest from the return of the runoff round on.  runoff.arg is
\* scoreRound.winners, which the runoff ranked and sorted in place.
starBestOfRunoff(score, runoff, dur) ==
  IF runoff.thrown
  THEN [out |-> Thrown(runoff.error), scoreRound |-> Some(score),
        runoffRound |-> None, arg |-> score.arg]
  ELSE IF runoff.winners = << >>
  THEN [out |-> Thrown(TypeError), scoreRound |-> Some(score),
        runoffRound |-> Some(runoff), arg |-> score.arg]
  ELSE starBestOfFinalists(score, runoff,
         Find(runoff.arg, LAMBDA w : w.date # runoff.winners[1].date), dur)

\* calculateStarBest from the return of the scoring round on
starBestOfScoreRound(score, dur) ==
  IF score.thrown
  THEN [out |-> Thrown(score.error), scoreRound |-> None, runoffRound |-> None,
        arg |-> score.arg]
  ELSE starBestOfRunoff(score, calculateFullRound(1, score.winners, RunoffOrder), dur)

\* calculateStarBest that returns the raw score of a single candidate
calculateStarBestUnnormalised(cs, dur) ==
  IF Len(cs) = 0
  THEN [out |-> NoResults, scoreRound |-> None, runoffRound |-> None, arg |-> cs]
  ELSE IF Len(cs) = 1
  THEN [out |-> [thrown |-> FALSE, error |-> NoError,
                 bestTime |-> Some([time |-> cs[1].date,
                   score |-> [num |-> cs[1].score, den |-> 1]]),
                 nextBest |-> None,
                 preferredFraction |-> None],
        scoreRound |-> None, runoffRound |-> None, arg |-> cs]
  ELSE starBestOfScoreRound(calculateFullRound(2, cs, ScoringOrder), dur)

\* out: the StarResults, or Thrown.  scoreRound, runoffRound: the two full
\* rounds as they returned, if they were run.  arg: the caller's array after
\* the call.
calculateStarBest(cs, dur) ==
  IF Len(cs) = 0
  THEN [out |-> NoResults, scoreRound |-> None, runoffRound |-> None, arg |-> cs]
  ELSE IF Len(cs) = 1
  THEN [out |-> [thrown |-> FALSE, error |-> NoError,
                 bestTime |-> Some([time |-> cs[1].date,
                   score |-> [num |-> cs[1].score, den |-> dur \div TIMESLOT_MINUTES]]),
                 nextBest |-> None,
                 preferredFraction |-> None],
        scoreRound |-> None, runoffRound |-> None, arg |-> cs]
  ELSE starBestOfScoreRound(calculateFullRound(2, cs, ScoringOrder), dur)

\* calculateBestTime from the return of calculateStarBest on
bestTimeOfStarBest(rng, filter, best) ==
  [out |-> best.out, rng |-> rng, candidates |-> filter.arg,
   highestScored |-> filter.highestScored, remaining |-> filter.candidates,
   scoreRound |-> best.scoreRound, runoffRound |-> best.runoffRound,
   filterRound |-> filter.round, pool |-> best.arg]

\* calculateBestTime from the return of the overlap filter on
bestTimeOfFiltered(rng, filter, dur) ==
  IF filter.thrown
  THEN [out |-> Thrown(filter.error), rng |-> rng, candidates |-> filter.arg,
        highestScored |-> None, remaining |-> << >>,
        scoreRound |-> None, runoffRound |-> None,
        filterRound |-> filter.round, pool |-> << >>]
  ELSE bestTimeOfStarBest(rng, filter, calculateStarBest(filter.candidates, dur))

\* calculateBestTime from the collated availabilities on
bestTimeOfCollated(dateCollated, dur, id, timeMap) ==
  bestTimeOfFiltered(
    Some(rngAfterMetrics(dateCollated, id)),
    removeOverlapsWithTopScorer(
      calculateSimpleCandidateMetrics(dateCollated, dur, id), dur, timeMap),
    dur)

\* calculateBestTime without its early return for an empty people list
calculateBestTimeUnguarded(ts, ps, dur, id, timeMap) ==
  bestTimeOfCollated(
    calculateAvailability(ts, replaceScoresWithFullScores(ts, ps, dur, timeMap)),
    dur, id, timeMap)

\* One call of calculateBestTime: what it returns or throws (out), the
\* generator it leaves behind (rng) and the values it went through.
calculateBestTime(ts, ps, dur, id, timeMap) ==
  IF Len(ps) = 0
  THEN [out |-> NoResults, rng |-> None, candidates |-> << >>, highestScored |-> None,
        remaining |-> << >>, scoreRound |-> None, runoffRound |-> None,
        filterRound |-> None, pool |-> << >>]
  ELSE bestTimeOfCollated(
         calculateAvailability(ts, replaceScoresWithFullScores(ts, ps, dur, timeMap)),
         dur, id, timeMap)

(***************************************************************************)
(* api.ts: a person as the API sends it.  A string is the sequence of its  *)
(* characters; a number that is NaN is << >>.                              *)
(***************************************************************************)
Max(a, b) == IF a > b THEN a ELSE b

DecimalDigits == {"0", "1", "2", "3", "4", "5", "6", "7", "8", "9"}
DigitValue ==
  ("0" :> 0) @@ ("1" :> 1) @@ ("2" :> 2) @@ ("3" :> 3) @@ ("4" :> 4) @@
  ("5" :> 5) @@ ("6" :> 6) @@ ("7" :> 7) @@ ("8" :> 8) @@ ("9" :> 9)

RECURSIVE split(_, _)
\* String.prototype.split: the pieces of str between the separators
split(str, separator) ==
  IF \A i \in 1..Len(str) : str[i] # separator
  THEN << str >>
  ELSE LET at == CHOOSE i \in 1..Len(str) :
                   str[i] = separator /\ \A j \in 1..(i - 1) : str[j] # separator
       IN  << SubSeq(str, 1, at - 1) >> \o split(SubSeq(str, at + 1, Len(str)), separator)

RECURSIVE digitsValue(_, _, _)
\* the number that the leading digits of str write in the radix, after acc
digitsValue(str, radix, acc) ==
  IF str = << >> \/ Head(str) \notin DecimalDigits
  THEN acc
  ELSE digitsValue(Tail(str), radix, acc * radix + DigitValue[Head(str)])

\* parseInt of an unsigned string without white space; a leading 0x makes
\* the radix 16 (the strings of the model hold no digit above 9)
parseUnsigned(str) ==
  IF Len(str) >= 2 /\ str[1] = "0" /\ str[2] = "x"
  THEN IF Len(str) >= 3 /\ str[3] \in DecimalDigits
       THEN Some(digitsValue(SubSeq(str, 3, Len(str)), 16, 0))
       ELSE None
  ELSE IF str # << >> /\ Head(str) \in DecimalDigits
  THEN Some(digitsValue(str, 10, 0))
  ELSE None

\* parseInt of a string without white space, or of undefined (<< >> as the
\* option): the integer that the longest leading numeral writes, NaN when
\* there is none
parseInt(scoreStr) ==
  IF ~Defined(scoreStr) THEN None
  ELSE IF scoreStr[1] # << >> /\ Head(scoreStr[1]) = "-"
  THEN LET n == parseUnsigned(Tail(scoreStr[1]))
       IN  IF Defined(n) THEN Some(0 - n[1]) ELSE None
  ELSE parseUnsigned(scoreStr[1])

\* the clamp without its upper bound
clampScoreNoCeiling(score) == Max(score, 0)

\* Math.min(Math.max(score, 0), MAXSCORE)
clampScore(score) == Min(Max(score, 0), MAXSCORE)

\* deserialize_timescore from the two first pieces of the string on
timescoreOfPieces(timeStr, parsedScore) ==
  [time |-> timeStr,
   score |-> clampScore(IF Defined(parsedScore) THEN parsedScore[1] ELSE 0)]

deserialize_timescore(ts) ==
  LET pieces == split(ts, "_")
  IN  timescoreOfPieces(pieces[1],
        parseInt(IF Len(pieces) >= 2 THEN Some(pieces[2]) ELSE None))

deserialize_personresponse(resp) ==
  [name |-> resp.name,
   availability |->
     Array([i \in 1..Len(resp.availability) |-> deserialize_timescore(resp.availability[i])]),
   created_at |-> resp.created_at]

\* the characters that strings of the API are made of in the model
WireChars == {"0", "3", "7", "-", "_", "x"}

\* the strings of at most n characters
WireStrings(n) == UNION {[1..k -> WireChars] : k \in 0..n}

(***************************************************************************)
(* What a call of calculateBestTime leaves of the arrays and the map it is *)
(* handed                                                                  *)
(***************************************************************************)
\* replaceScoresWithFullScores that sorts the labels themselves
inputsAfterFullScoresSortedInPlace(ts, ps, timeMap) ==
  [times |-> StableSort(ts, Array([i \in 1..Len(ts) |-> timeMap[ts[i]]])),
   people |-> ps, timeMap |-> timeMap]

\* replaceScoresWithFullScores goes through people and times with map and
\* through each availability with find, reads the time map, and sorts the
\* array that times.map built
inputsAfterFullScores(ts, ps, timeMap) ==
  [times |-> ts, people |-> ps, timeMap |-> timeMap]

\* calculateBestTime writes to none of its arguments itself, and
\* calculateAvailability goes through the labels with map and is handed the
\* people that replaceScoresWithFullScores built
inputsAfterBestTime(ts, ps, timeMap) ==
  IF Len(ps) = 0
  THEN [times |-> ts, people |-> ps, timeMap |-> timeMap]
  ELSE inputsAfterFullScores(ts, ps, timeMap)

(***************************************************************************)
(* The viewer: the event, its responses, and the memoised results          *)
(***************************************************************************)
\* the viewer keeps what the call r of calculateBestTime gave
Keep(r) ==
  /\ results' = r.out
  /\ myrng' = r.rng
  /\ candidates' = r.candidates
  /\ highestScored' = r.highestScored
  /\ remaining' = r.remaining
  /\ scoreRound' = r.scoreRound
  /\ runoffRound' = r.runoffRound
  /\ filterRound' = r.filterRound
  /\ pool' = r.pool

\* the results memo of the viewer for the given inputs
Render(ts, ps, dur, id) ==
  /\ Keep(calculateBestTime(ts, ps, dur, id, calculateTimeMap(ts)))
  /\ inputs' = inputsAfterBestTime(ts, ps, calculateTimeMap(ts))

\* the label lists of events with at most n slots: the first k grid slots
TimeLists(n) == {[i \in 1..k |-> i - 1] : k \in 0..n}

\* what a person can submit for the labels ts: a score for every label,
\* persisted without the zero scores
Availabilities(ts) ==
  {dropZeroScores([i \in 1..Len(ts) |-> [time |-> ts[i], score |-> f[i]]]) :
     f \in [1..Len(ts) -> ScoreLevels]}

\* the viewer holds what the call r of calculateBestTime gave
Kept(r) ==
  /\ results = r.out
  /\ myrng = r.rng
  /\ candidates = r.candidates
  /\ highestScored = r.highestScored
  /\ remaining = r.remaining
  /\ scoreRound = r.scoreRound
  /\ runoffRound = r.runoffRound
  /\ filterRound = r.filterRound
  /\ pool = r.pool

\* an event of one of the label lists, no response yet, rendered once
InitWith(lists) ==
  /\ times \in lists
  /\ eventId \in EventIds
  /\ duration \in Durations
  /\ people = << >>
  /\ Kept(calculateBestTime(times, people, duration, eventId, calculateTimeMap(times)))
  /\ inputs = inputsAfterBestTime(times, people, calculateTimeMap(times))
  /\ response = None
  /\ parsed = None

Init == InitWith(TimeLists(NumSlots))

\* a person submits one of the availabilities avs, if the event has less
\* than n responses; the results are recomputed
AddPersonFrom(n, avs) ==
  /\ Len(people) < n
  /\ \E a \in avs :
       /\ people' = Append(people, [name |-> Len(people) + 1, availability |-> a,
                                    created_at |-> Len(people) + 1])
       /\ Render(times, people', duration, eventId)
  /\ UNCHANGED <<times, eventId, duration, response, parsed>>

\* a person submits their availability, if the event has less than n
\* responses; the results are recomputed
AddPersonUpTo(n) == AddPersonFrom(n, Availabilities(times))

AddPerson == AddPersonUpTo(MaxPeople)

\* the viewer picks another meeting duration; the results are recomputed
SetMeetingDuration ==
  /\ \E d \in Durations \ {duration} :
       /\ duration' = d
       /\ Render(times, people, d, eventId)
  /\ UNCHANGED <<times, eventId, people, response, parsed>>

\* the page is loaded again: the results are computed anew from the same inputs
Reload ==
  /\ Render(times, people, duration, eventId)
  /\ UNCHANGED <<times, eventId, duration, people, response, parsed>>

Next == AddPerson \/ SetMeetingDuration \/ Reload

Spec == Init /\ [][Next]_vars

\* the event of Example A: four contiguous slots
ExampleTimes == <<0, 1, 2, 3>>

InitExample == InitWith({ExampleTimes})

SpecExample == InitExample /\ [][Next]_vars

\* events with WideSlots labels
InitWide == InitWith({[i \in 1..WideSlots |-> i - 1]})

SpecWide == InitWide /\ [][Next]_vars

\* the label lists of events whose slots leave one slot out of the first
\* n + 1 grid slots, in chronological and in reverse order
GapLists(n) ==
  UNION {{[i \in 1..n |-> IF i - 1 < gap THEN i - 1 ELSE i],
          [i \in 1..n |-> IF n - i < gap THEN n - i ELSE n - i + 1]} : gap \in 0..n}

InitGaps == InitWith(GapLists(GapSlots))

AddPersonGaps == AddPersonUpTo(GapPeople)

NextGaps == AddPersonGaps \/ SetMeetingDuration \/ Reload

SpecGaps == InitGaps /\ [][NextGaps]_vars

\* the event of SpecStars: two contiguous slots
StarTimes == <<0, 1>>

\* the scores that people give a slot in SpecStars
StarLevels == {0, MAXSCORE - 1, MAXSCORE}

InitStars == InitWith({StarTimes})

AddPersonStars ==
  AddPersonFrom(StarPeople,
    {dropZeroScores([i \in 1..Len(times) |-> [time |-> times[i], score |-> f[i]]]) :
       f \in [1..Len(times) -> StarLevels]})

NextStars == AddPersonStars \/ SetMeetingDuration \/ Reload

SpecStars == InitStars /\ [][NextStars]_vars

\* the event of SpecCrowd: three contiguous slots
CrowdTimes == <<0, 1, 2>>

\* the scores that people give a slot in SpecCrowd
CrowdLevels == {0, 1, MAXSCORE}

InitCrowd == InitWith({CrowdTimes})

AddPersonCrowd ==
  AddPersonFrom(CrowdPeople,
    {dropZeroScores([i \in 1..Len(times) |-> [time |-> times[i], score |-> f[i]]]) :
       f \in [1..Len(times) -> CrowdLevels]})

NextCrowd == AddPersonCrowd \/ SetMeetingDuration \/ Reload

SpecCrowd == InitCrowd /\ [][NextCrowd]_vars

\* getPerson, once per page: the API sends a person, whatever the strings
\* of their availability, and the person is deserialized
GetPerson ==
  /\ ~Defined(response)
  /\ \E w \in WireStrings(WireLen) :
       /\ response' = Some([name |-> 1, availability |-> << w >>, created_at |-> 1])
       /\ parsed' = Some(deserialize_personresponse(response'[1]))
  /\ UNCHANGED <<times, eventId, duration, people, results, myrng, candidates,
                 highestScored, remaining, scoreRound, runoffRound, filterRound,
                 pool, inputs>>

InitApi == InitWith({<< >>})

NextApi == GetPerson

SpecApi == InitApi /\ [][NextApi]_vars

(***************************************************************************)
(* Properties                                                              *)
(***************************************************************************)
\* the start of the meeting at a label, in minutes
StartOf(label) == calculateTimeMap(times)[label]

\* the windows of the meetings at two labels share more than a boundary
Overlap(a, b) ==
  /\ StartOf(a) - StartOf(b) < duration
  /\ StartOf(b) - StartOf(a) < duration

\* C1: with an empty people list calculateBestTime returns bestTime,
\* nextBest and preferredFraction all undefined, whatever the labels, the
\* duration and the event id, and it returns before any step of the
\* tabulation: no candidate is built, no generator is seeded, no round is run.
C1_EmptyPeopleNoResults ==
  people = << >> =>
    /\ ~results.thrown
    /\ results.bestTime = None
    /\ results.nextBest = None
    /\ results.preferredFraction = None
    /\ candidates = << >>
    /\ myrng = None
    /\ highestScored = None
    /\ scoreRound = None
    /\ runoffRound = None

\* an event with all its labels and no response, rendered
C1_Witness ==
  /\ people = << >>
  /\ Len(times) = NumSlots
  /\ results.bestTime = None

\* C2: whenever two or more candidates remain after the overlap filter
\* (non-empty people), calculateBestTime throws nothing, runs the scoring
\* round and then the runoff, and returns a defined bestTime, nextBest and
\* preferredFraction; exactly two remaining candidates included.
C2_TwoOrMoreRemainingGiveFinalists ==
  (people # << >> /\ Len(remaining) >= 2) =>
    /\ ~results.thrown
    /\ Defined(scoreRound)
    /\ Defined(runoffRound)
    /\ Defined(results.bestTime)
    /\ Defined(results.nextBest)
    /\ Defined(results.preferredFraction)

\* C3: whenever bestTime and nextBest are both returned their windows do
\* not overlap: the two starts differ by at least the duration.
C3_FinalistsDoNotOverlap ==
  (Defined(results.bestTime) /\ Defined(results.nextBest)) =>
    ~Overlap(results.bestTime[1].time, results.nextBest[1].time)

\* C4: the candidate the overlap filter selected as highest scoring is one
\* of the two finalists: it is bestTime or nextBest.
C4_TopScorerIsFinalist ==
  (Defined(highestScored) /\ Defined(results.nextBest)) =>
    highestScored[1].date \in {results.bestTime[1].time, results.nextBest[1].time}

\* C5: the overlap filter never removes the candidate it selected as top
\* scorer: for a list of more than two candidates the winner of the
\* filter's full round is in the returned list, and every returned
\* candidate is one of the list it was given.
C5_FilterKeepsTopScorer ==
  Defined(highestScored) =>
    /\ Len(candidates) > 2
    /\ \E i \in 1..Len(remaining) : remaining[i].date = highestScored[1].date
    /\ \A i \in 1..Len(remaining) :
         \E j \in 1..Len(candidates) : candidates[j] = remaining[i]

\* the filter ran and removed a candidate
C5_Witness ==
  /\ Defined(highestScored)
  /\ Len(remaining) < Len(candidates)

\* the candidate that remained after the filter at a label
RemainingAt(label) ==
  remaining[CHOOSE i \in 1..Len(remaining) : remaining[i].date = label]

\* the people that count as a win for the meeting at a over the one at b
WinsOver(a, b) ==
  calculateRankedWinsBetweenPair(RemainingAt(a).people, RemainingAt(b).people)

\* C6: a defined preferredFraction lies in [0,1]; it is winnerWins /
\* (winnerWins + runnerUpWins), the wins of the two finalists against each
\* other, when that sum is not zero, and exactly 0 (no 0/0) when it is.
C6_PreferredFraction ==
  Defined(results.preferredFraction) =>
    /\ results.preferredFraction[1].den > 0
    /\ 0 <= results.preferredFraction[1].num
    /\ results.preferredFraction[1].num <= results.preferredFraction[1].den
    /\ LET w == WinsOver(results.bestTime[1].time, results.nextBest[1].time)
           s == WinsOver(results.nextBest[1].time, results.bestTime[1].time)
       IN  IF w + s # 0
           THEN results.preferredFraction[1].num * (w + s)
                  = w * results.preferredFraction[1].den
           ELSE results.preferredFraction[1].num = 0

\* two finalists neither of which anyone prefers to the other
C6_Witness ==
  /\ Defined(results.preferredFraction)
  /\ WinsOver(results.bestTime[1].time, results.nextBest[1].time) = 0
  /\ WinsOver(results.nextBest[1].time, results.bestTime[1].time) = 0

\* C7: when exactly one candidate remains after the overlap filter, bestTime
\* is its label with its raw score over numTimeslots (duration / 15),
\* nextBest and preferredFraction are undefined, and no round is run.
C7_SingleCandidate ==
  Len(remaining) = 1 =>
    /\ ~results.thrown
    /\ results.bestTime =
         Some([time |-> remaining[1].date,
               score |-> [num |-> remaining[1].score,
                          den |-> duration \div TIMESLOT_MINUTES]])
    /\ results.nextBest = None
    /\ results.preferredFraction = None
    /\ scoreRound = None
    /\ runoffRound = None

\* one candidate is left of several, of a meeting longer than a slot
C7_Witness ==
  /\ Len(remaining) = 1
  /\ Defined(highestScored)
  /\ remaining[1].score > 0
  /\ duration > TIMESLOT_MINUTES

\* C8: the raw score of every candidate is at least 0 and at most
\* 5 * numTimeslots * numPeople.
C8_ScoreBounds ==
  \A i \in 1..Len(candidates) :
    /\ 0 <= candidates[i].score
    /\ candidates[i].score
         <= MAXSCORE * (duration \div TIMESLOT_MINUTES) * Len(people)

\* a candidate that everyone gives the full score in every slot of a
\* meeting of several slots
C8_Witness ==
  /\ Len(people) = MaxPeople
  /\ duration > TIMESLOT_MINUTES
  /\ \E i \in 1..Len(candidates) :
       candidates[i].score = MAXSCORE * (duration \div TIMESLOT_MINUTES) * Len(people)

ExampleAPeople ==
  /\ Len(people) = 1
  /\ \A i \in 1..Len(ExampleTimes) :
       getScoreForTime(ExampleTimes[i], people[1].availability) = MAXSCORE

\* C10: Example A.  Four contiguous slots, duration 60, one person who
\* scores every slot 5: the candidate at the first slot has raw score 20
\* (normalized 20/4 = 5), it alone remains after the overlap filter, it is
\* bestTime, and nextBest and preferredFraction are undefined.
C10_ExampleA ==
  (times = ExampleTimes /\ duration = 4 * TIMESLOT_MINUTES /\ ExampleAPeople) =>
    /\ \E i \in 1..Len(candidates) :
         candidates[i].date = times[1] /\ candidates[i].score = 20
    /\ Len(remaining) = 1
    /\ remaining[1].date = times[1]
    /\ ~results.thrown
    /\ results.bestTime = Some([time |-> times[1], score |-> [num |-> 20, den |-> 4]])
    /\ results.nextBest = None
    /\ results.preferredFraction = None

\* the event of Example A with its one response, rendered
C10_Witness ==
  /\ times = ExampleTimes
  /\ duration = 4 * TIMESLOT_MINUTES
  /\ ExampleAPeople
  /\ Defined(results.bestTime)

\* the full rounds that the last call ran and that returned, each with the
\* number of winners it was asked for
RoundsRun ==
  {[n |-> 1, round |-> filterRound[i]] : i \in 1..Len(filterRound)}
  \cup {[n |-> 2, round |-> scoreRound[i]] : i \in 1..Len(scoreRound)}
  \cup {[n |-> 1, round |-> runoffRound[i]] : i \in 1..Len(runoffRound)}

\* a candidate record without the ranked wins, which every ranked robin
\* round writes anew
Entrant(c) == [c EXCEPT !.rankedWins = None]

\* the number of winners of the first k mini rounds of the full round r
WinnersThrough(r, k) == Sum([j \in 1..k |-> Len(r.rounds[j].winners)])

\* C11: a full round asked for N winners among more than N candidates
\* returns at most N winners, each of them one of its candidates and none
\* of them twice, and it runs no mini round once the winners of the mini
\* rounds so far number N.
C11_FullRoundWinners ==
  \A fr \in RoundsRun :
    Len(fr.round.candidates) > fr.n =>
      /\ Len(fr.round.winners) <= fr.n
      /\ \A i \in 1..Len(fr.round.winners) :
           \E j \in 1..Len(fr.round.candidates) :
             Entrant(fr.round.candidates[j]) = Entrant(fr.round.winners[i])
      /\ \A i, j \in 1..Len(fr.round.winners) :
           i # j => fr.round.winners[i].date # fr.round.winners[j].date
      /\ Len(fr.round.winners) = WinnersThrough(fr.round, Len(fr.round.rounds))
      /\ \A k \in 1..(Len(fr.round.rounds) - 1) : WinnersThrough(fr.round, k) < fr.n

\* a scoring round over four or more candidates that found its first winner
\* by score and its second by a later metric, and left metrics unused
C11_Witness ==
  /\ Defined(scoreRound)
  /\ Len(scoreRound[1].candidates) >= 4
  /\ Len(scoreRound[1].winners) = 2
  /\ Len(scoreRound[1].rounds) \in 2..3
  /\ Len(scoreRound[1].rounds[1].winners) = 1
  /\ Len(scoreRound[1].rounds[1].tied) >= 3

\* the randomTieValues of the candidates are pairwise distinct
DistinctTieValues(cs) ==
  \A i, j \in 1..Len(cs) : i # j => cs[i].randomTieValue # cs[j].randomTieValue

\* C12: when the randomTieValues of its candidates are pairwise distinct, a
\* full round asked for N winners among more than N candidates, with a
\* metric sequence that ends with random, returns exactly N winners: a
\* random mini round leaves nobody tied.
C12_CoinTossResolves ==
  \A fr \in RoundsRun :
    (DistinctTieValues(fr.round.candidates) /\ Len(fr.round.candidates) > fr.n) =>
      /\ Len(fr.round.winners) = fr.n
      /\ \A k \in 1..Len(fr.round.rounds) :
           fr.round.rounds[k].roundType = "random" => fr.round.rounds[k].tied = << >>

\* a scoring round that went through all four metrics: the coin toss chose
\* among three or more candidates
C12_Witness ==
  /\ Defined(scoreRound)
  /\ Len(scoreRound[1].rounds) = 4
  /\ scoreRound[1].rounds[4].roundType = "random"
  /\ Len(scoreRound[1].rounds[4].candidates) >= 3
  /\ Len(scoreRound[1].winners) = 2

UpToUnderscore(w) ==
  IF \E i \in 1..Len(w) : w[i] = "_"
  THEN SubSeq(w, 1, (CHOOSE i \in 1..Len(w) :
                       w[i] = "_" /\ \A j \in 1..(i - 1) : w[j] # "_") - 1)
  ELSE w

\* the string between its first and its second underscore (or its end), in
\* a set: empty when the string has no underscore
ScoreStrings(w) ==
  IF Len(UpToUnderscore(w)) = Len(w) THEN {}
  ELSE {UpToUnderscore(SubSeq(w, Len(UpToUnderscore(w)) + 2, Len(w)))}

\* the string is a decimal integer: digits, possibly after a minus sign
IsInteger(str) ==
  LET digits == IF str # << >> /\ Head(str) = "-" THEN Tail(str) ELSE str
  IN  digits # << >> /\ \A i \in 1..Len(digits) : digits[i] \in DecimalDigits

RECURSIVE Magnitude(_)
\* the number that a string of decimal digits writes
Magnitude(digits) ==
  IF digits = << >> THEN 0
  ELSE 10 * Magnitude(SubSeq(digits, 1, Len(digits) - 1)) + DigitValue[digits[Len(digits)]]

\* the number that a decimal integer string writes
IntegerValue(str) ==
  IF Head(str) = "-" THEN 0 - Magnitude(Tail(str)) ELSE Magnitude(str)

\* no numeral begins the string
Unparsable(str) ==
  LET digits == IF str # << >> /\ Head(str) = "-" THEN Tail(str) ELSE str
  IN  digits = << >> \/ Head(digits) \notin DecimalDigits

Dates(cs) == {cs[i].date : i \in 1..Len(cs)}

\* the labels of the candidates of a list whose metric is related to the
\* value v as Related says
DatesWhere(cs, metric, v, Related(_, _)) ==
  {cs[i].date : i \in {j \in 1..Len(cs) : Related(getMetric(cs[j], metric), v)}}

\* the mini round at position k of the full round fr did what a mini round
\* asked for need winners does
MiniRoundAsAsked(mr, need) ==
  /\ need < Len(mr.candidates)
  /\ \A i \in 1..(Len(mr.candidates) - 1) :
       getMetric(mr.candidates[i], mr.roundType)
         >= getMetric(mr.candidates[i + 1], mr.roundType)
  /\ Len(mr.winners) <= need
  /\ Len(mr.winners) = Cardinality(Dates(mr.winners))
  /\ Len(mr.tied) = Cardinality(Dates(mr.tied))
  /\ Dates(mr.winners) =
       DatesWhere(mr.candidates, mr.roundType,
                  getMetric(mr.candidates[need + 1], mr.roundType), LAMBDA x, v : x > v)
  /\ Dates(mr.tied) =
       IF Len(mr.winners) = need THEN {}
       ELSE DatesWhere(mr.candidates, mr.roundType,
                       getMetric(mr.candidates[need + 1], mr.roundType),
                       LAMBDA x, v : x = v)
  /\ Dates(mr.winners) \cap Dates(mr.tied) = {}

\* C15: a mini round asked for need winners among more candidates sorts
\* them by the metric, descending; with scoreToBeat the metric of the
\* candidate at index need, its winners are exactly the candidates strictly
\* above scoreToBeat (at most need); tied is empty if they number need, and
\* exactly the candidates at scoreToBeat otherwise; the candidates below
\* are in neither, and no candidate is in both.
C15_MiniRound ==
  \A fr \in RoundsRun :
    \A k \in 1..Len(fr.round.rounds) :
      MiniRoundAsAsked(fr.round.rounds[k], fr.n - WinnersThrough(fr.round, k - 1))

\* a mini round of score with one winner, two or more candidates tied for
\* the second place behind it and a candidate below them
C15_Witness ==
  /\ Defined(scoreRound)
  /\ Len(scoreRound[1].rounds[1].winners) = 1
  /\ Len(scoreRound[1].rounds[1].tied) >= 2
  /\ Len(scoreRound[1].rounds[1].candidates) >= 4

\* C16: calculateMiniRound throws, and returns nothing, exactly when it is
\* asked for as many winners as it is given candidates, or more: within
\* calculateBestTime that is the scoring round (two winners) over two
\* remaining candidates, and every mini round that returned had fewer
\* winners to find than candidates.  It throws before it ranks and sorts:
\* the candidate list is as it was.
C16_MiniRoundFault ==
  /\ results.error = MiniRoundError <=> (people # << >> /\ Len(remaining) = 2)
  /\ results.error = MiniRoundError =>
       /\ results.thrown
       /\ results.bestTime = None
       /\ scoreRound = None
       /\ pool = remaining
  /\ \A fr \in RoundsRun :
       \A k \in 1..Len(fr.round.rounds) :
         fr.n - WinnersThrough(fr.round, k - 1) < Len(fr.round.rounds[k].candidates)

\* the fault on two candidates that a sort by score would have swapped
C16_Witness ==
  /\ results.error = MiniRoundError
  /\ Len(remaining) = 2
  /\ remaining[1].score < remaining[2].score
  /\ pool = remaining

\* the metrics of the rounds
Metrics == {"score", "rankedRobin", "fiveStars", "random"}

\* the candidate records that the last call held outside its rounds
Records == {candidates[i] : i \in 1..Len(candidates)}
           \cup {remaining[i] : i \in 1..Len(remaining)}
           \cup {pool[i] : i \in 1..Len(pool)}

\* C17: getMetric throws exactly for the rankedRobin metric of a candidate
\* whose rankedWins is unset.  calculateBestTime never gets there: every
\* ranked robin mini round ranks its candidates before it reads them, and
\* the two finalists whose ranked wins make the preference fraction were
\* ranked by the runoff.
C17_RankedWinsSet ==
  /\ \A c \in Records : \A metric \in Metrics :
       getMetricThrows(c, metric) <=> (metric = "rankedRobin" /\ c.rankedWins = None)
  /\ results.error # RankedWinsError
  /\ \A fr \in RoundsRun :
       \A k \in 1..Len(fr.round.rounds) :
         fr.round.rounds[k].roundType = "rankedRobin" =>
           \A i \in 1..Len(fr.round.rounds[k].candidates) :
             Defined(fr.round.rounds[k].candidates[i].rankedWins)
  /\ Defined(results.nextBest) =>
       /\ Defined(results.preferredFraction)
       /\ Len(runoffRound[1].arg) = 2
       /\ \A i \in 1..2 : Defined(runoffRound[1].arg[i].rankedWins)

\* two finalists out of remaining candidates none of which had ranked wins
\* when the scoring round began
C17_Witness ==
  /\ Defined(results.preferredFraction)
  /\ Len(remaining) >= 3
  /\ \A i \in 1..Len(remaining) : remaining[i].rankedWins = None
  /\ \A i \in 1..Len(runoffRound[1].arg) : Defined(runoffRound[1].arg[i].rankedWins)

\* the candidate at label a beats the one at label b in the runoff: more
\* wins one on one, then the higher score, then more five stars, then the
\* higher randomTieValue
BeatsInRunoff(a, b) ==
  \/ WinsOver(a, b) > WinsOver(b, a)
  \/ /\ WinsOver(a, b) = WinsOver(b, a)
     /\ \/ RemainingAt(a).score > RemainingAt(b).score
        \/ /\ RemainingAt(a).score = RemainingAt(b).score
           /\ \/ RemainingAt(a).fiveStars > RemainingAt(b).fiveStars
              \/ /\ RemainingAt(a).fiveStars = RemainingAt(b).fiveStars
                 /\ RemainingAt(a).randomTieValue > RemainingAt(b).randomTieValue

\* C18: in a result with two finalists the runoff ran over exactly the two
\* winners of the scoring round, with the metrics rankedRobin, score,
\* fiveStars, random in this order; bestTime is its one winner and nextBest
\* the other winner of the scoring round, at another label.  So bestTime is
\* the finalist with more wins one on one, on a tie the one with the higher
\* raw score, then with more five stars, then with the higher randomTieValue.
C18_RunoffWinner ==
  Defined(results.nextBest) =>
    /\ Defined(scoreRound) /\ Defined(runoffRound)
    /\ Len(scoreRound[1].winners) = 2
    /\ Len(runoffRound[1].candidates) = 2
    /\ \A i \in 1..2 :
         Entrant(runoffRound[1].candidates[i]) = Entrant(scoreRound[1].winners[i])
    /\ \A k \in 1..Len(runoffRound[1].rounds) :
         runoffRound[1].rounds[k].roundType =
           <<"rankedRobin", "score", "fiveStars", "random">>[k]
    /\ Len(runoffRound[1].winners) = 1
    /\ results.bestTime[1].time = runoffRound[1].winners[1].date
    /\ results.nextBest[1].time # results.bestTime[1].time
    /\ results.nextBest[1].time \in Dates(scoreRound[1].winners)
    /\ BeatsInRunoff(results.bestTime[1].time, results.nextBest[1].time)

\* a runoff that the ranked wins left tied and the raw scores decided
C18_Witness ==
  /\ Defined(results.nextBest)
  /\ Len(runoffRound[1].rounds) = 2
  /\ WinsOver(results.bestTime[1].time, results.nextBest[1].time) > 0
  /\ RemainingAt(results.bestTime[1].time).score
       > RemainingAt(results.nextBest[1].time).score

\* the finalist at a label as the runoff left it
FinalistAt(label) ==
  runoffRound[1].arg[CHOOSE i \in 1..Len(runoffRound[1].arg) :
                       runoffRound[1].arg[i].date = label]

\* the winner of the scoring round at a label as the scoring round returned it
ScoringWinnerAt(label) ==
  scoreRound[1].winners[CHOOSE i \in 1..Len(scoreRound[1].winners) :
                          scoreRound[1].winners[i].date = label]

\* C19: the ranked wins that make preferredFraction are, for the winner and
\* for the runner-up, the wins of the match between the two of them, which
\* the ranked robin mini round of the runoff computed over its two
\* candidates; they are not the ranked wins that a ranked robin mini round
\* of the filter or of the scoring round left in the records.
C19_FractionOfTheMatch ==
  Defined(results.preferredFraction) =>
    /\ runoffRound[1].rounds[1].roundType = "rankedRobin"
    /\ Len(runoffRound[1].rounds[1].candidates) = 2
    /\ FinalistAt(results.bestTime[1].time).rankedWins
         = Some(WinsOver(results.bestTime[1].time, results.nextBest[1].time))
    /\ FinalistAt(results.nextBest[1].time).rankedWins
         = Some(WinsOver(results.nextBest[1].time, results.bestTime[1].time))
    /\ results.preferredFraction[1].num \in
         {0, getMetric(FinalistAt(results.bestTime[1].time), "rankedRobin")}
    /\ results.preferredFraction[1].den \in
         {1, getMetric(FinalistAt(results.bestTime[1].time), "rankedRobin")
               + getMetric(FinalistAt(results.nextBest[1].time), "rankedRobin")}

\* a finalist came out of the scoring round with ranked wins over a larger
\* pool that differ from its wins over the other finalist
C19_Witness ==
  /\ Defined(results.preferredFraction)
  /\ Defined(ScoringWinnerAt(results.bestTime[1].time).rankedWins)
  /\ Defined(ScoringWinnerAt(results.nextBest[1].time).rankedWins)
  /\ ScoringWinnerAt(results.bestTime[1].time).rankedWins
       # FinalistAt(results.bestTime[1].time).rankedWins

\* the score of the person p for the meeting at the label, every slot of
\* the event looked at
ScanAll(p, label) ==
  getScoreForTime(label, p.availability)
  + Sum([i \in 1..Len(times) |->
          IF StartOf(label) < StartOf(times[i])
             /\ StartOf(times[i]) < StartOf(label) + duration
          THEN getScoreForTime(times[i], p.availability)
          ELSE 0])

\* the score that the candidate has from the person of the name
ScoreFrom(c, name) ==
  Sum([k \in 1..Len(c.people) |->
        IF c.people[k].name = name THEN c.people[k].score ELSE 0])

\* C20: for every person and every candidate start t the score of the
\* window is the person's score at t plus their scores at all slots
\* strictly after t and strictly before t + duration: on distinct slots of
\* the 15-minute grid the look ahead over duration / 15 positions of the
\* sorted slots finds what a scan of all slots finds, also when slots are
\* missing between others and when the window ends after the last slot.
C20_WindowScore ==
  people # << >> =>
    /\ Dates(candidates) = {times[i] : i \in 1..Len(times)}
    /\ Len(candidates) = Len(times)
    /\ \A i \in 1..Len(candidates) :
         /\ \A k \in 1..Len(people) :
              ScoreFrom(candidates[i], people[k].name)
                = ScanAll(people[k], candidates[i].date)
         /\ \A k \in 1..Len(candidates[i].people) :
              /\ candidates[i].people[k].score > 0
              /\ \E j \in 1..Len(people) :
                   people[j].name = candidates[i].people[k].name

\* an event with a missing slot and reversed labels, a person who scores
\* all slots, and a meeting of two slots: the window of the slot before the
\* gap holds no other slot, the window of another slot holds the next
C20_Witness ==
  /\ Len(people) = 1
  /\ Len(people[1].availability) = Len(times)
  /\ duration = 2 * TIMESLOT_MINUTES
  /\ StartOf(times[1]) > StartOf(times[Len(times)])
  /\ \E i \in 1..Len(candidates) : candidates[i].score = MAXSCORE
  /\ \E i \in 1..Len(candidates) : candidates[i].score = 2 * MAXSCORE
  /\ \E i \in 1..Len(times) :
       /\ \A j \in 1..Len(times) : times[j] # times[i] + 1
       /\ \E j \in 1..Len(times) : times[j] > times[i] + 1

\* the point in time lies strictly inside the window of the top scorer
InsideTopWindow(minutes) ==
  /\ StartOf(highestScored[1].date) < minutes
  /\ minutes < StartOf(highestScored[1].date) + duration

\* C21: the overlap filter returns a list of two or fewer candidates as it
\* is; of a longer list it removes exactly the candidates whose window
\* start or window end lies strictly between the start of the top scorer
\* and that start plus the duration.  So every other candidate that it keeps
\* starts a full duration or more before or after the top scorer, and a
\* candidate whose window only touches the window of the top scorer is kept.
C21_FilterRemovesOverlaps ==
  /\ Len(candidates) <= 2 => (remaining = candidates /\ highestScored = None)
  /\ (people # << >> /\ Len(candidates) > 2) => Defined(highestScored)
  /\ Defined(highestScored) =>
       /\ remaining =
            SelectSeq(candidates, LAMBDA c :
              /\ ~InsideTopWindow(StartOf(c.date))
              /\ ~InsideTopWindow(StartOf(c.date) + duration))
       /\ \A i \in 1..Len(remaining) :
            \/ remaining[i].date = highestScored[1].date
            \/ StartOf(remaining[i].date) + duration <= StartOf(highestScored[1].date)
            \/ StartOf(highestScored[1].date) + duration <= StartOf(remaining[i].date)
       /\ \A i \in 1..Len(candidates) :
            (\/ StartOf(candidates[i].date) + duration = StartOf(highestScored[1].date)
             \/ StartOf(highestScored[1].date) + duration = StartOf(candidates[i].date))
              => candidates[i].date \in Dates(remaining)

\* a meeting of two slots: the filter removed the candidate that starts
\* inside the window of the top scorer and kept the one that starts at its end
C21_Witness ==
  /\ Defined(highestScored)
  /\ duration = 2 * TIMESLOT_MINUTES
  /\ Len(remaining) < Len(candidates)
  /\ \E i \in 1..Len(remaining) :
       StartOf(remaining[i].date) = StartOf(highestScored[1].date) + duration

\* the wins of the candidate at position i of the pool over all others of
\* the pool
WinsInPool(cs, i) ==
  Sum([j \in 1..Len(cs) |->
        IF j = i THEN 0
        ELSE calculateRankedWinsBetweenPair(cs[i].people, cs[j].people)])

\* the ranked robin mini rounds that the last call ran and that returned
RankedRobinsRun ==
  UNION {{fr.round.rounds[k] : k \in {j \in 1..Len(fr.round.rounds) :
            fr.round.rounds[j].roundType = "rankedRobin"}} : fr \in RoundsRun}

\* C22: a ranked robin mini round computes the rankedWins of each of its
\* candidates anew, over exactly the candidates it was handed: the sum over
\* every other candidate of the pool of the people that count as a win
\* against that candidate, whatever ranked wins the candidate had, and
\* whatever candidates have won, were eliminated or were filtered out.
C22_RankedWinsOfThePool ==
  \A mr \in RankedRobinsRun :
    \A i \in 1..Len(mr.candidates) :
      mr.candidates[i].rankedWins = Some(WinsInPool(mr.candidates, i))

\* the runoff ranked two candidates that the scoring round had ranked in a
\* pool of three or more, one of them with another count than before
C22_Witness ==
  /\ Defined(runoffRound)
  /\ runoffRound[1].rounds[1].roundType = "rankedRobin"
  /\ \E k \in 1..Len(scoreRound[1].rounds) :
       /\ scoreRound[1].rounds[k].roundType = "rankedRobin"
       /\ Len(scoreRound[1].rounds[k].candidates) >= 3
  /\ \E i \in 1..2 :
       /\ Defined(scoreRound[1].winners[i].rankedWins)
       /\ scoreRound[1].winners[i].rankedWins[1] > 0
       /\ runoffRound[1].candidates[i].rankedWins = scoreRound[1].winners[i].rankedWins
       /\ \A j \in 1..2 :
            runoffRound[1].rounds[1].candidates[j].date = scoreRound[1].winners[i].date
              => runoffRound[1].rounds[1].candidates[j].rankedWins
                   # scoreRound[1].winners[i].rankedWins

\* the person of the name counts as a win for the candidate a against b
CountsFor(a, b, name) ==
  /\ ScoreFrom(a, name) # 0
  /\ ScoreFrom(b, name) = 0 \/ ScoreFrom(a, name) > ScoreFrom(b, name)

\* the people that count as a win for the candidate a against b
WinnersFor(a, b) ==
  {k \in 1..Len(people) : CountsFor(a, b, people[k].name)}

\* C23: in the comparison of the candidates A and B a person is one win
\* for A exactly when their score for A is not zero and they have no score
\* for B or a score for A strictly above their score for B; a person with
\* equal scores for A and B, or with none for both, is a win for neither.
C23_PairwiseWins ==
  /\ \A i, j \in 1..Len(candidates) :
       /\ calculateRankedWinsBetweenPair(candidates[i].people, candidates[j].people)
            = Cardinality(WinnersFor(candidates[i], candidates[j]))
       /\ \A k \in 1..Len(people) :
            ScoreFrom(candidates[i], people[k].name)
              = ScoreFrom(candidates[j], people[k].name)
            => /\ k \notin WinnersFor(candidates[i], candidates[j])
               /\ k \notin WinnersFor(candidates[j], candidates[i])
  /\ Defined(results.preferredFraction) =>
       /\ FinalistAt(results.bestTime[1].time).rankedWins =
            Some(Cardinality(WinnersFor(RemainingAt(results.bestTime[1].time),
                                        RemainingAt(results.nextBest[1].time))))
       /\ FinalistAt(results.nextBest[1].time).rankedWins =
            Some(Cardinality(WinnersFor(RemainingAt(results.nextBest[1].time),
                                        RemainingAt(results.bestTime[1].time))))

\* two finalists: one person gives both the same score, not zero, and the
\* other person scores the winner only
C23_Witness ==
  /\ Defined(results.preferredFraction)
  /\ Len(people) = 2
  /\ \E k \in 1..2 :
       /\ ScoreFrom(RemainingAt(results.bestTime[1].time), people[k].name) > 0
       /\ ScoreFrom(RemainingAt(results.bestTime[1].time), people[k].name)
            = ScoreFrom(RemainingAt(results.nextBest[1].time), people[k].name)
  /\ \E k \in 1..2 :
       /\ ScoreFrom(RemainingAt(results.bestTime[1].time), people[k].name) > 0
       /\ ScoreFrom(RemainingAt(results.nextBest[1].time), people[k].name) = 0
  /\ results.preferredFraction[1] = [num |-> 1, den |-> 1]

\* C24: the fiveStars of a candidate is the number of people whose window
\* score over numTimeslots is strictly above 4.5, that is with
\* 2 * score > 9 * numTimeslots: a person with an average of exactly 4.5 is
\* not counted, nor is a person without a score for the window.
C24_FiveStars ==
  \A i \in 1..Len(candidates) :
    /\ candidates[i].fiveStars =
         Cardinality({k \in 1..Len(people) :
           2 * ScoreFrom(candidates[i], people[k].name)
             > 9 * (duration \div TIMESLOT_MINUTES)})
    /\ candidates[i].fiveStars <=
         Cardinality({k \in 1..Len(people) :
           ScoreFrom(candidates[i], people[k].name) > 0}
         \ {k \in 1..Len(people) :
           2 * ScoreFrom(candidates[i], people[k].name)
             = 9 * (duration \div TIMESLOT_MINUTES)})

\* a meeting of two slots that one person gives 5 and 5, the other 4 and 5
\* (4.5 on average): one five star
C24_Witness ==
  /\ duration = 2 * TIMESLOT_MINUTES
  /\ Len(people) = 2
  /\ \E i \in 1..Len(candidates) :
       /\ ScoreFrom(candidates[i], people[1].name) = 10
       /\ ScoreFrom(candidates[i], people[2].name) = 9
       /\ candidates[i].fiveStars = 1

\* the tied list of the mini round mr as the mini round returned it, asked
\* for need winners
TiedAsReturned(mr, need) ==
  IF Len(mr.winners) = need THEN << >>
  ELSE SelectSeq(mr.candidates, LAMBDA c :
         getMetric(c, mr.roundType) = getMetric(mr.candidates[need + 1], mr.roundType))

\* C25: the candidate records that a mini round or a full round returns
\* (candidates, winners, tied, with their rankedWins) are copies that no
\* later mini round and no later full round changes: once the call is
\* through, the tied list of every mini round is as that mini round
\* returned it, and the winners of the scoring round are as the scoring
\* round returned them, the runoff having run.
C25_ResultsAreSnapshots ==
  /\ \A fr \in RoundsRun :
       \A k \in 1..Len(fr.round.rounds) :
         fr.round.rounds[k].tied =
           TiedAsReturned(fr.round.rounds[k], fr.n - WinnersThrough(fr.round, k - 1))
  /\ Defined(runoffRound) => runoffRound[1].arg = scoreRound[1].winners

\* C26: calculateFullRound works on copies of its own: when it has
\* returned, the list that the caller passed has its elements in the order
\* and with the rankedWins and other metrics of before the call.
C26_CallerListUntouched ==
  /\ Defined(filterRound) => candidates = filterRound[1].candidates
  /\ Defined(scoreRound) => pool = scoreRound[1].candidates
  /\ Defined(runoffRound) => runoffRound[1].arg = runoffRound[1].candidates

\* C27: within a full round whose first mini round is asked for fewer
\* winners than it has candidates, every later mini round is asked for
\* fewer winners (and for one at least) than the tied candidates that are
\* passed on to it.  So the fault of too few candidates is that of the first
\* mini round of a full round: in calculateBestTime, that of the scoring
\* round over a list of two, before any mini round returned.
C27_NeedBelowTied ==
  /\ \A fr \in RoundsRun :
       Len(fr.round.candidates) > fr.n =>
         \A k \in 1..(Len(fr.round.rounds) - 1) :
           /\ fr.n - WinnersThrough(fr.round, k) >= 1
           /\ fr.n - WinnersThrough(fr.round, k) < Len(fr.round.rounds[k].tied)
           /\ Dates(fr.round.rounds[k + 1].candidates) = Dates(fr.round.rounds[k].tied)
  /\ results.error = MiniRoundError =>
       /\ Len(pool) = 2
       /\ scoreRound = None
       /\ runoffRound = None

\* a scoring round that found one winner by score and went on to three
\* more mini rounds, each over the candidates tied for the second place
C27_Witness ==
  /\ Defined(scoreRound)
  /\ Len(scoreRound[1].rounds) = 4
  /\ Len(scoreRound[1].rounds[1].winners) = 1
  /\ Len(scoreRound[1].rounds[3].tied) >= 2
  /\ Len(scoreRound[1].winners) = 2

\* C28: in a result with two finalists the winner has at least as many
\* wins over the runner-up as the runner-up has over the winner, so
\* preferredFraction is 0, when nobody prefers either, or 1/2 or more; it is
\* never strictly between 0 and 1/2.
C28_FractionAtLeastHalf ==
  Defined(results.preferredFraction) =>
    /\ WinsOver(results.bestTime[1].time, results.nextBest[1].time)
         >= WinsOver(results.nextBest[1].time, results.bestTime[1].time)
    /\ results.preferredFraction[1].den > 0
    /\ \/ results.preferredFraction[1].num = 0
       \/ 2 * results.preferredFraction[1].num >= results.preferredFraction[1].den
    /\ results.preferredFraction[1].num = 0 <=>
         /\ WinsOver(results.bestTime[1].time, results.nextBest[1].time) = 0
         /\ WinsOver(results.nextBest[1].time, results.bestTime[1].time) = 0

\* a winner that one person prefers, over a runner-up that the other
\* person prefers: one half
C28_Witness ==
  /\ Defined(results.preferredFraction)
  /\ WinsOver(results.bestTime[1].time, results.nextBest[1].time) = 1
  /\ WinsOver(results.nextBest[1].time, results.bestTime[1].time) = 1
  /\ results.preferredFraction[1] = [num |-> 1, den |-> 2]

\* the candidates that remained after the filter and are not finalists
NonFinalists ==
  {remaining[i] : i \in {j \in 1..Len(remaining) :
     remaining[j].date \notin {results.bestTime[1].time, results.nextBest[1].time}}}

\* C29: in a result with two finalists, bestTime and nextBest each have a
\* raw score that is at least the raw score of every candidate that
\* remained after the overlap filter and is not a finalist.
C29_FinalistsScoreHighest ==
  Defined(results.nextBest) =>
    \A c \in NonFinalists :
      /\ RemainingAt(results.bestTime[1].time).score >= c.score
      /\ RemainingAt(results.nextBest[1].time).score >= c.score

\* three people, a runner-up that outscores the winner, and a candidate
\* with a score that is not a finalist
C29_Witness ==
  /\ Defined(results.nextBest)
  /\ Len(people) = CrowdPeople
  /\ \E c \in NonFinalists : c.score > 0
  /\ RemainingAt(results.nextBest[1].time).score
       > RemainingAt(results.bestTime[1].time).score

\* the list in the order of the permutation
Permuted(cs, f) == Array([i \in 1..Len(cs) |-> cs[f[i]]])

\* the ranked wins of the candidates of a ranked list, by label
RankedByDate(ranked) ==
  {<<ranked[i].date, ranked[i].rankedWins>> : i \in 1..Len(ranked)}

\* C30: with uniquely named people a person is a win for at most one side
\* of a pair of candidates, so wins(A over B) + wins(B over A) is at most
\* the number of people; and calculateRankedWins gives each candidate the
\* same rankedWins in whatever order the candidates are listed.
C30_WinsBoundedAndOrderFree ==
  /\ \A i, j \in 1..Len(candidates) :
       i # j =>
         calculateRankedWinsBetweenPair(candidates[i].people, candidates[j].people)
         + calculateRankedWinsBetweenPair(candidates[j].people, candidates[i].people)
           <= Len(people)
  /\ \A f \in Permutations(1..Len(remaining)) :
       /\ calculateRankedWins(Permuted(remaining, f))
            = calculateRankedWinsByLoops(Permuted(remaining, f))
       /\ RankedByDate(calculateRankedWinsByLoops(Permuted(remaining, f)))
            = RankedByDate(calculateRankedWinsByLoops(remaining))

\* three candidates or more with different ranked wins, two of them a pair
\* in which every person is a win for one side
C30_Witness ==
  /\ Len(remaining) >= 3
  /\ Len(people) = MaxPeople
  /\ \E i, j \in 1..Len(remaining) :
       /\ calculateRankedWinsBetweenPair(remaining[i].people, remaining[j].people) >= 1
       /\ calculateRankedWinsBetweenPair(remaining[j].people, remaining[i].people) >= 1
       /\ calculateRankedWinsBetweenPair(remaining[i].people, remaining[j].people)
          + calculateRankedWinsBetweenPair(remaining[j].people, remaining[i].people)
            = Len(people)
  /\ Cardinality({x[2] : x \in RankedByDate(calculateRankedWins(remaining))}) >= 2

====
